---------------------------- MODULE Spec2Model ----------------------------
(***************************************************************************)
(* Model of TomatoFocusApp (src/tomato.py): the focus/rest countdown       *)
(* threads, the start_focus restart protocol with its shared stop flag,    *)
(* the settings form, and the target log kept in targets.csv.              *)
(*                                                                         *)
(* The Tk main thread runs one handler at a time (start_focus,             *)
(* submit_config, the mute checkbox).  Every start_focus creates one       *)
(* daemon thread running _run_focus_timer; the threads interleave freely   *)
(* with each other and with the statements of start_focus.  One loop       *)
(* iteration of _countdown (flag check, label update, sleep) is one step.  *)
(* master.after(0, ...) is a FIFO queue, so the order in which updates are *)
(* displayed is the order in which _update_label is called; the model      *)
(* records the calls.                                                      *)
(***************************************************************************)
EXTENDS Integers, Sequences, FiniteSets

(***************************************************************************)
(* Bounds of the model.                                                    *)
(***************************************************************************)
\* number of start_focus calls explored (= number of timer threads)
MaxStarts == 2
\* largest number of minutes typed into the settings form
MaxMinutes == 1
\* largest number of entries in the target log
MaxRows == 2

(***************************************************************************)
(* Program constants.                                                      *)
(***************************************************************************)
DEFAULT_FOCUS_MINUTES == 25
DEFAULT_REST_MINUTES == 10
\* the factor of "self.focus_minutes * 60", "self.rest_minutes * 60" and
\* the divisor of divmod(remaining, 60)
SecondsPerMinute == 60

VARIABLES
    focus_minutes,  \* self.focus_minutes
    rest_minutes,   \* self.rest_minutes
    mute_sound,     \* self.mute_sound (BooleanVar of the checkbox)
    stop_event,     \* self.stop_event (threading.Event)
    main_pc,        \* position of the main thread inside __init__ or
                    \* start_focus
    nstarts,        \* number of start_focus calls begun so far
    config_msg,     \* the message box submit_config showed last
    threads,        \* the timer threads: position and locals of each
    obs,            \* per thread: what it has emitted so far (history)
    snap,           \* rest_minutes and mute_sound when start_focus was last
                    \* called
    csv_file,       \* the file CSV_FILE: whether it exists, and its lines
    log_entries,    \* the entries add_target has accepted, in order
                    \* (history)
    target_entry,   \* text of self.target_entry
    current_focus_label,  \* text of self.current_focus_label
    listbox,        \* the lines of the history window's listbox
    searched,       \* the last _search_targets call: its query and the
                    \* number of entries at the time (history)
    add_outcome     \* how the last add_target call ended (history)

timerVars == <<focus_minutes, rest_minutes, mute_sound, stop_event, main_pc,
               nstarts, config_msg, threads, obs, snap>>

logVars == <<csv_file, log_entries, target_entry, current_focus_label,
             listbox, searched, add_outcome>>

vars == <<focus_minutes, rest_minutes, mute_sound, stop_event, main_pc,
          nstarts, config_msg, threads, obs, snap, csv_file, log_entries,
          target_entry, current_focus_label, listbox, searched, add_outcome>>

Runs == 1..MaxStarts

(***************************************************************************)
(* Text.  A text is a sequence of one-character strings.                   *)
(***************************************************************************)
DigitChars == <<"0", "1", "2", "3", "4", "5", "6", "7", "8", "9">>

DigitValue(c) == CHOOSE d \in 0..9 : DigitChars[d + 1] = c

IsDigit(c) == c \in {DigitChars[d + 1] : d \in 0..9}

\* str(n) of a natural number
RECURSIVE DecimalText(_)
DecimalText(n) ==
    IF n < 10 THEN <<DigitChars[n + 1]>>
    ELSE DecimalText(n \div 10) \o <<DigitChars[(n % 10) + 1]>>

\* a variant of Format02d that does not pad
Format02dUnpadded(n) == DecimalText(n)

\* the format specification ":02d" for n >= 0: at least two digits, padded
\* on the left with zeros
Format02d(n) ==
    LET s == DecimalText(n)
    IN  IF Len(s) < 2 THEN <<"0">> \o s ELSE s

\* f"{mode_label} Time Left: {minutes:02d}:{seconds:02d}" with
\* minutes, seconds = divmod(remaining, 60)
TimeStr(mode_label, remaining) ==
    LET minutes == remaining \div SecondsPerMinute
        seconds == remaining % SecondsPerMinute
    IN  <<mode_label, " Time Left: ">> \o Format02d(minutes) \o <<":">>
            \o Format02d(seconds)

\* f"{mode_label} Time Left: 00:00"
FinalStr(mode_label) == <<mode_label, " Time Left: ", "0", "0", ":", "0", "0">>

(***************************************************************************)
(* int(text) of the settings form: surrounding blanks are stripped, one    *)
(* sign is allowed, the rest must be a non-empty run of digits; anything   *)
(* else raises ValueError.                                                 *)
(***************************************************************************)
RECURSIVE LStrip(_)
LStrip(s) == IF s # <<>> /\ Head(s) = " " THEN LStrip(Tail(s)) ELSE s

RECURSIVE RStrip(_)
RStrip(s) ==
    IF s # <<>> /\ s[Len(s)] = " " THEN RStrip(SubSeq(s, 1, Len(s) - 1)) ELSE s

Strip(s) == RStrip(LStrip(s))

Unsigned(s) ==
    LET t == Strip(s)
    IN  IF t # <<>> /\ Head(t) \in {"+", "-"} THEN Tail(t) ELSE t

\* int(s) does not raise ValueError
IsIntText(s) ==
    LET digits == Unsigned(s)
    IN  /\ digits # <<>>
        /\ \A i \in 1..Len(digits) : IsDigit(digits[i])

RECURSIVE DigitsValue(_)
DigitsValue(s) ==
    IF s = <<>> THEN 0
    ELSE 10 * DigitsValue(SubSeq(s, 1, Len(s) - 1)) + DigitValue(s[Len(s)])

\* the value of int(s) when it does not raise
IntOf(s) ==
    LET t == Strip(s)
    IN  IF Head(t) = "-" THEN 0 - DigitsValue(Unsigned(s))
        ELSE DigitsValue(Unsigned(s))

\* what the user may type into a field of the settings form
EntryTexts ==
    {DecimalText(n) : n \in 0..MaxMinutes} \cup {<<"a">>}

\* int(s) for every text the user may type: the value, or ValueError
ParseInt ==
    [s \in EntryTexts |->
        IF IsIntText(s) THEN [ok |-> TRUE, value |-> IntOf(s)]
        ELSE [ok |-> FALSE, value |-> 0]]

(***************************************************************************)
(* The target log.  A text is a sequence of characters, a file a sequence  *)
(* of lines (the line terminators are left out); the date and the time of  *)
(* a record are one token each.  csv.writer and csv.reader use the excel   *)
(* dialect: fields separated by commas, a field holding a comma or a quote *)
(* is written between quotes with its quotes doubled.                      *)
(***************************************************************************)
\* str.lower() of one character, on the letters used here
LowerChar(c) == CASE c = "A" -> "a" [] c = "B" -> "b" [] OTHER -> c

\* s.lower()
RECURSIVE Lower(_)
Lower(s) == IF s = <<>> THEN <<>> ELSE <<LowerChar(Head(s))>> \o Lower(Tail(s))

\* "sub in s" for two strings
Contains(sub, s) ==
    \E i \in 1..(Len(s) - Len(sub) + 1) : SubSeq(s, i, i + Len(sub) - 1) = sub

\* the quotes of a field doubled
RECURSIVE DoubleQuotes(_)
DoubleQuotes(s) ==
    IF s = <<>> THEN <<>>
    ELSE (IF Head(s) = "\"" THEN <<"\"", "\"">> ELSE <<Head(s)>>)
            \o DoubleQuotes(Tail(s))

\* one field as csv.writer writes it (QUOTE_MINIMAL)
CsvField(field) ==
    IF \E i \in 1..Len(field) : field[i] \in {",", "\""}
    THEN <<"\"">> \o DoubleQuotes(field) \o <<"\"">>
    ELSE field

\* writer.writerow(row): the line written for a row of one or more fields
RECURSIVE CsvJoin(_)
CsvJoin(row) ==
    IF Len(row) = 1 THEN CsvField(row[1])
    ELSE CsvField(Head(row)) \o <<",">> \o CsvJoin(Tail(row))

\* the state machine of csv.reader over one line, from position i
RECURSIVE CsvScan(_, _, _, _, _)
CsvScan(line, i, state, field, fields) ==
    IF i > Len(line) THEN Append(fields, field)
    ELSE LET c == line[i] IN
         CASE state = "start_field" ->
                IF c = "\"" THEN CsvScan(line, i + 1, "in_quoted", <<>>, fields)
                ELSE IF c = ","
                     THEN CsvScan(line, i + 1, "start_field", <<>>,
                                  Append(fields, <<>>))
                     ELSE CsvScan(line, i + 1, "in_field", <<c>>, fields)
           [] state = "in_field" ->
                IF c = ","
                THEN CsvScan(line, i + 1, "start_field", <<>>,
                             Append(fields, field))
                ELSE CsvScan(line, i + 1, "in_field", Append(field, c), fields)
           [] state = "in_quoted" ->
                IF c = "\""
                THEN CsvScan(line, i + 1, "quote_in_quoted", field, fields)
                ELSE CsvScan(line, i + 1, "in_quoted", Append(field, c), fields)
           [] OTHER ->
                IF c = "\""
                THEN CsvScan(line, i + 1, "in_quoted", Append(field, c), fields)
                ELSE IF c = ","
                     THEN CsvScan(line, i + 1, "start_field", <<>>,
                                  Append(fields, field))
                     ELSE CsvScan(line, i + 1, "in_field", Append(field, c),
                                  fields)

\* the row csv.reader yields for a line
CsvRow(line) ==
    IF line = <<>> THEN <<>> ELSE CsvScan(line, 1, "start_field", <<>>, <<>>)

\* CSV_FILE when os.path.exists(CSV_FILE) is false
NoFile == [exists |-> FALSE, lines |-> <<>>]

\* the header written by _ensure_csv_exists
HeaderRow == << <<"Date">>, <<"Time">>, <<"Target">> >>

\* a variant of EnsureCsvExists that opens the file with "w" unconditionally
EnsureCsvExistsTruncating(file) ==
    [exists |-> TRUE, lines |-> <<CsvJoin(HeaderRow)>>]

\* _ensure_csv_exists: the file afterwards
EnsureCsvExists(file) ==
    IF ~file.exists
    THEN [exists |-> TRUE, lines |-> <<CsvJoin(HeaderRow)>>]
    ELSE file

\* open(CSV_FILE, "a") and writer.writerow(row): the file afterwards
AppendRow(file, row) ==
    [exists |-> TRUE, lines |-> Append(file.lines, CsvJoin(row))]

\* open(CSV_FILE, "w") and writer.writerow(row): the file afterwards
OverwriteRow(file, row) ==
    [exists |-> TRUE, lines |-> <<CsvJoin(row)>>]

\* next(reader, None); rows = list(reader)
ReadRows(file) ==
    IF Len(file.lines) <= 1 THEN <<>>
    ELSE [i \in 1..(Len(file.lines) - 1) |-> CsvRow(file.lines[i + 1])]

\* an optional text: None, or the text
None == <<>>
Some(text) == <<text>>

\* a variant of GetLastTarget that returns the first row's target
GetLastTargetFirst(file) ==
    IF ~file.exists THEN None
    ELSE LET rows == ReadRows(file)
         IN  IF rows # <<>> THEN Some(rows[1][3]) ELSE None

\* _get_last_target
GetLastTarget(file) ==
    IF ~file.exists THEN None
    ELSE LET rows == ReadRows(file)
         IN  IF rows # <<>> THEN Some(rows[Len(rows)][3]) ELSE None

\* the f-string of line 70: None is printed as "None"
InitialLabel(last_target) ==
    <<"Current Focus: ">>
        \o (IF Len(last_target) = 0 THEN <<"None">> ELSE last_target[1])

\* lines 102-105 and 123-126: "if last_target:" is false for None and for ""
FocusLabel(last_target) ==
    IF Len(last_target) = 1 /\ Len(last_target[1]) > 0
    THEN <<"Current Focus: ">> \o last_target[1]
    ELSE <<"Current Focus: ", "None">>

\* the listbox line of a row: f"{date_str} {time_str} - {target_text}"
ListItem(row) == row[1] \o <<" ">> \o row[2] \o <<" - ">> \o row[3]

\* a variant of ScanRows that compares without lower()
RECURSIVE ScanRowsCaseSensitive(_, _, _)
ScanRowsCaseSensitive(rows, query, items) ==
    IF rows = <<>> \/ Len(Head(rows)) # 3 THEN items
    ELSE ScanRowsCaseSensitive(Tail(rows), query,
            IF Contains(query, Head(rows)[3])
            THEN Append(items, ListItem(Head(rows)))
            ELSE items)

\* lines 244-247: the loop over the rows; a row that does not have three
\* fields raises ValueError at line 245, which ends the loop
RECURSIVE ScanRows(_, _, _)
ScanRows(rows, query, items) ==
    IF rows = <<>> \/ Len(Head(rows)) # 3 THEN items
    ELSE ScanRows(Tail(rows), query,
            IF Contains(Lower(query), Lower(Head(rows)[3]))
            THEN Append(items, ListItem(Head(rows)))
            ELSE items)

\* the date and the times the clock may show while the program runs
Today == <<"2024-05-01">>
Times == <<"09:30:00", "09:30:01">>
ClockOf(time) == CHOOSE k \in 1..Len(Times) : Times[k] = time[1]

\* what the user may type into the target entry
TargetTexts ==
    { <<>>,
      <<" ", " ">>,
      <<" ", "a", "b", " ">>,
      <<"A", " ", "B">>,
      <<"b", ",", "\"">> }

\* what the user may type into the search entry of the history window
Queries == { <<>>, <<"A", "B">>, <<"b">>, <<"z">> }

\* an entry of the log as add_target composed it
Entry(date, time, text) == [date |-> date, time |-> time, text |-> text]
RowOf(entry) == <<entry.date, entry.time, entry.text>>

\* the file and its entries when the program starts: no file, or a file
\* an earlier session of the program left behind
OldEntry == Entry(Today, <<Times[1]>>, <<"a", "b">>)
InitialLogs ==
    { [file |-> NoFile, entries |-> <<>>],
      [file |-> EnsureCsvExists(NoFile), entries |-> <<>>],
      [file |-> AppendRow(EnsureCsvExists(NoFile), RowOf(OldEntry)),
       entries |-> <<OldEntry>>] }

\* search_var and the listbox before any search
NotSearched == [done |-> FALSE, query |-> <<>>, rows |-> 0]

(***************************************************************************)
(* Initial state: the state after TomatoFocusApp.__init__.                 *)
(***************************************************************************)
NoThread ==
    [pc |-> "none", mode_label |-> "", total_seconds |-> 0, remaining |-> 0]

NoObs ==
    [focus_n |-> 0, rest_n |-> 0, focus_total |-> 0, focus_last |-> 0 - 1,
     last_remaining |-> 0 - 1, last_text |-> <<>>, sound |-> "none",
     superseded_in |-> "", late |-> 0,
     first_label |-> "", first_remaining |-> 0 - 1]

Init ==
    /\ focus_minutes = DEFAULT_FOCUS_MINUTES
    /\ rest_minutes = DEFAULT_REST_MINUTES
    /\ mute_sound = FALSE
    /\ stop_event = FALSE
    /\ main_pc = "idle"
    /\ nstarts = 0
    /\ config_msg = "none"
    /\ threads = [t \in Runs |-> NoThread]
    /\ obs = [t \in Runs |-> NoObs]
    /\ snap = [rest |-> DEFAULT_REST_MINUTES, mute |-> FALSE]
    /\ csv_file = EnsureCsvExists(NoFile)
    /\ log_entries = <<>>
    /\ target_entry = <<>>
    /\ current_focus_label = InitialLabel(GetLastTarget(NoFile))
    /\ listbox = <<>>
    /\ searched = NotSearched
    /\ add_outcome = "none"

\* the state in which __init__ reaches line 70, with the file and the
\* entries an earlier session may have left
InitLog ==
    /\ focus_minutes = DEFAULT_FOCUS_MINUTES
    /\ rest_minutes = DEFAULT_REST_MINUTES
    /\ mute_sound = FALSE
    /\ stop_event = FALSE
    /\ main_pc = "init_label"
    /\ nstarts = 0
    /\ config_msg = "none"
    /\ threads = [t \in Runs |-> NoThread]
    /\ obs = [t \in Runs |-> NoObs]
    /\ snap = [rest |-> DEFAULT_REST_MINUTES, mute |-> FALSE]
    /\ \E log \in InitialLogs :
          /\ csv_file = log.file
          /\ log_entries = log.entries
    /\ target_entry = <<>>
    /\ current_focus_label = <<>>
    /\ listbox = <<>>
    /\ searched = NotSearched
    /\ add_outcome = "none"


(***************************************************************************)
(* Helpers on the state.                                                   *)
(***************************************************************************)
\* thread t exists and has not returned from _run_focus_timer
Live(t) == threads[t].pc \notin {"none", "done"}

\* start_focus has been called again after the call that created thread t
Superseded(t) == nstarts > t

\* the part of _run_focus_timer thread t is in
PhaseOf(t) ==
    CASE threads[t].pc = "new" -> "Focus"
      [] threads[t].pc = "count" -> threads[t].mode_label
      [] OTHER -> "boundary"

\* self._update_label(text) called by thread t: the update is queued for the
\* label; obs records it
UpdateLabel(t, mode_label, remaining, text) ==
    obs' = [obs EXCEPT ![t] =
        [@ EXCEPT !.focus_n = IF mode_label = "Focus" THEN @ + 1 ELSE @,
                  !.rest_n = IF mode_label = "Rest" THEN @ + 1 ELSE @,
                  !.focus_last = IF mode_label = "Focus" THEN remaining ELSE @,
                  !.last_remaining = remaining,
                  !.last_text = text,
                  !.late = IF Superseded(t) /\ @ < 2 THEN @ + 1 ELSE @,
                  !.first_label = IF @ = "" THEN mode_label ELSE @,
                  !.first_remaining =
                      IF obs[t].first_label = "" THEN remaining ELSE @]]

(***************************************************************************)
(* start_focus, on the main thread.                                        *)
(***************************************************************************)
\* line 115: self.stop_event.set()
StartFocusSet ==
    /\ main_pc = "idle"
    /\ nstarts < MaxStarts
    /\ focus_minutes <= MaxMinutes
    /\ rest_minutes <= MaxMinutes
    /\ stop_event' = TRUE
    /\ main_pc' = "set"
    /\ nstarts' = nstarts + 1
    /\ snap' = [rest |-> rest_minutes, mute |-> mute_sound]
    /\ obs' = [t \in Runs |->
                IF Live(t) /\ obs[t].superseded_in = ""
                THEN [obs[t] EXCEPT !.superseded_in = PhaseOf(t)]
                ELSE obs[t]]
    /\ UNCHANGED <<focus_minutes, rest_minutes, mute_sound, config_msg, threads>>
    /\ UNCHANGED logVars

\* a variant of StartFocusSpawn without the stop_event.clear() of line 118
StartFocusSpawnNoClear ==
    /\ main_pc = "set"
    /\ threads' = [threads EXCEPT ![nstarts] = [NoThread EXCEPT !.pc = "new"]]
    /\ main_pc' = "idle"
    /\ current_focus_label' = FocusLabel(GetLastTarget(csv_file))
    /\ UNCHANGED <<focus_minutes, rest_minutes, mute_sound, stop_event, nstarts,
                   config_msg, obs, snap>>
    /\ UNCHANGED <<csv_file, log_entries, target_entry, listbox, searched,
                   add_outcome>>

\* lines 118-130: self.stop_event.clear(), the labels, and the new thread
StartFocusSpawn ==
    /\ main_pc = "set"
    /\ stop_event' = FALSE
    /\ threads' = [threads EXCEPT ![nstarts] = [NoThread EXCEPT !.pc = "new"]]
    /\ main_pc' = "idle"
    /\ current_focus_label' = FocusLabel(GetLastTarget(csv_file))
    /\ UNCHANGED <<focus_minutes, rest_minutes, mute_sound, nstarts, config_msg,
                   obs, snap>>
    /\ UNCHANGED <<csv_file, log_entries, target_entry, listbox, searched,
                   add_outcome>>

(***************************************************************************)
(* The settings form and the mute checkbox, on the main thread.            *)
(***************************************************************************)
\* a variant of SubmitConfig that stores each field as soon as it is parsed
SubmitConfigFieldwise(focus_text, rest_text) ==
    /\ main_pc = "idle"
    /\ IF ParseInt[focus_text].ok /\ ParseInt[rest_text].ok
       THEN /\ focus_minutes' = ParseInt[focus_text].value
            /\ rest_minutes' = ParseInt[rest_text].value
            /\ config_msg' = "Settings updated!"
       ELSE /\ config_msg' = "Please enter valid integers."
            /\ focus_minutes' = IF ParseInt[focus_text].ok
                                THEN ParseInt[focus_text].value
                                ELSE focus_minutes
            /\ UNCHANGED rest_minutes
    /\ UNCHANGED <<mute_sound, stop_event, main_pc, nstarts, threads, obs, snap>>
    /\ UNCHANGED logVars

\* submit_config with the two entries holding focus_text and rest_text
SubmitConfig(focus_text, rest_text) ==
    /\ main_pc = "idle"
    /\ IF ParseInt[focus_text].ok /\ ParseInt[rest_text].ok
       THEN /\ focus_minutes' = ParseInt[focus_text].value
            /\ rest_minutes' = ParseInt[rest_text].value
            /\ config_msg' = "Settings updated!"
       ELSE /\ config_msg' = "Please enter valid integers."
            /\ UNCHANGED <<focus_minutes, rest_minutes>>
    /\ UNCHANGED <<mute_sound, stop_event, main_pc, nstarts, threads, obs, snap>>
    /\ UNCHANGED logVars

Submit == \E focus_text \in EntryTexts, rest_text \in EntryTexts :
             SubmitConfig(focus_text, rest_text)

\* the "Mute Sound" checkbox bound to self.mute_sound
ToggleMute ==
    /\ main_pc = "idle"
    /\ mute_sound' = ~mute_sound
    /\ UNCHANGED <<focus_minutes, rest_minutes, stop_event, main_pc, nstarts,
                   config_msg, threads, obs, snap>>
    /\ UNCHANGED logVars

(***************************************************************************)
(* _run_focus_timer and _countdown, on timer thread t.                     *)
(***************************************************************************)
\* where _run_focus_timer continues when _countdown(_, mode_label) returns
AfterCountdown(mode_label) == IF mode_label = "Focus" THEN "sound" ELSE "done"

\* lines 148-149: total_seconds = self.focus_minutes * 60; enter _countdown
RunBegin(t) ==
    /\ threads[t].pc = "new"
    /\ threads' = [threads EXCEPT ![t] =
            [pc |-> "count", mode_label |-> "Focus",
             total_seconds |-> focus_minutes * SecondsPerMinute,
             remaining |-> focus_minutes * SecondsPerMinute]]
    /\ obs' = [obs EXCEPT ![t].focus_total = focus_minutes * SecondsPerMinute]
    /\ UNCHANGED <<focus_minutes, rest_minutes, mute_sound, stop_event, main_pc,
                   nstarts, config_msg, snap>>
    /\ UNCHANGED logVars

\* lines 162-169: one iteration of
\* "for remaining in range(total_seconds, 0, -1)"
CountdownStep(t) ==
    /\ threads[t].pc = "count"
    /\ threads[t].remaining >= 1
    /\ IF stop_event
       THEN /\ threads' = [threads EXCEPT
                    ![t].pc = AfterCountdown(threads[t].mode_label)]
            /\ UNCHANGED obs
       ELSE /\ UpdateLabel(t, threads[t].mode_label, threads[t].remaining,
                    TimeStr(threads[t].mode_label, threads[t].remaining))
            /\ threads' = [threads EXCEPT ![t].remaining = @ - 1]
    /\ UNCHANGED <<focus_minutes, rest_minutes, mute_sound, stop_event, main_pc,
                   nstarts, config_msg, snap>>
    /\ UNCHANGED logVars

\* a variant of CountdownFinal without the final update
CountdownFinalSilent(t) ==
    /\ threads[t].pc = "count"
    /\ threads[t].remaining < 1
    /\ threads' = [threads EXCEPT ![t].pc = AfterCountdown(threads[t].mode_label)]
    /\ UNCHANGED <<focus_minutes, rest_minutes, mute_sound, stop_event, main_pc,
                   nstarts, config_msg, obs, snap>>
    /\ UNCHANGED logVars

\* lines 171-172: the range is exhausted; final update to 00:00
CountdownFinal(t) ==
    /\ threads[t].pc = "count"
    /\ threads[t].remaining < 1
    /\ UpdateLabel(t, threads[t].mode_label, 0, FinalStr(threads[t].mode_label))
    /\ threads' = [threads EXCEPT ![t].pc = AfterCountdown(threads[t].mode_label)]
    /\ UNCHANGED <<focus_minutes, rest_minutes, mute_sound, stop_event, main_pc,
                   nstarts, config_msg, snap>>
    /\ UNCHANGED logVars

\* a variant of PlaySound without the try/except: the failure is raised
PlaySoundUncaught(ok) ==
    [sound |-> IF ok THEN "played" ELSE "failed", raised |-> ~ok]

\* _play_sound: AudioSegment.from_file and play succeed (ok) or raise; the
\* except clause prints the error, so nothing is raised to the caller
PlaySound(ok) ==
    [sound |-> IF ok THEN "played" ELSE "failed", raised |-> FALSE]

\* a variant of SoundCheck in which play() never returns
SoundCheckBlocking(t) ==
    /\ threads[t].pc = "sound"
    /\ stop_event \/ mute_sound
    /\ threads' = [threads EXCEPT ![t].pc = "rest"]
    /\ UNCHANGED <<focus_minutes, rest_minutes, mute_sound, stop_event, main_pc,
                   nstarts, config_msg, obs, snap>>
    /\ UNCHANGED logVars

\* lines 152-153: play the sound unless stopped or muted
SoundCheck(t) ==
    /\ threads[t].pc = "sound"
    /\ IF ~stop_event /\ ~mute_sound
       THEN \E ok \in BOOLEAN :
               /\ obs' = [obs EXCEPT ![t].sound = PlaySound(ok).sound]
               /\ threads' = [threads EXCEPT ![t].pc =
                        IF PlaySound(ok).raised THEN "done" ELSE "rest"]
       ELSE /\ threads' = [threads EXCEPT ![t].pc = "rest"]
            /\ UNCHANGED obs
    /\ UNCHANGED <<focus_minutes, rest_minutes, mute_sound, stop_event, main_pc,
                   nstarts, config_msg, snap>>
    /\ UNCHANGED logVars

\* lines 156-158: start the Rest countdown unless stopped
RestCheck(t) ==
    /\ threads[t].pc = "rest"
    /\ IF ~stop_event
       THEN threads' = [threads EXCEPT ![t] =
                [pc |-> "count", mode_label |-> "Rest",
                 total_seconds |-> rest_minutes * SecondsPerMinute,
                 remaining |-> rest_minutes * SecondsPerMinute]]
       ELSE threads' = [threads EXCEPT ![t].pc = "done"]
    /\ UNCHANGED <<focus_minutes, rest_minutes, mute_sound, stop_event, main_pc,
                   nstarts, config_msg, obs, snap>>
    /\ UNCHANGED logVars

TimerThread(t) ==
    \/ RunBegin(t)
    \/ CountdownStep(t)
    \/ CountdownFinal(t)
    \/ SoundCheck(t)
    \/ RestCheck(t)

(***************************************************************************)
(* The target log, on the main thread.                                     *)
(***************************************************************************)
\* line 70: the label is created showing _get_last_target()
CtorLabel ==
    /\ main_pc = "init_label"
    /\ current_focus_label' = InitialLabel(GetLastTarget(csv_file))
    /\ main_pc' = "init_csv"
    /\ UNCHANGED <<csv_file, log_entries, target_entry, listbox, searched,
                   add_outcome>>
    /\ UNCHANGED <<focus_minutes, rest_minutes, mute_sound, stop_event, nstarts,
                   config_msg, threads, obs, snap>>

\* line 78: self._ensure_csv_exists(), the last statement of __init__
CtorEnsureCsv ==
    /\ main_pc = "init_csv"
    /\ csv_file' = EnsureCsvExists(csv_file)
    /\ main_pc' = "idle"
    /\ UNCHANGED <<log_entries, target_entry, current_focus_label, listbox,
                   searched, add_outcome>>
    /\ UNCHANGED <<focus_minutes, rest_minutes, mute_sound, stop_event, nstarts,
                   config_msg, threads, obs, snap>>

\* the user edits the target entry
TypeTarget(text) ==
    /\ main_pc = "idle"
    /\ target_entry' = text
    /\ UNCHANGED <<csv_file, log_entries, current_focus_label, listbox,
                   searched, add_outcome>>
    /\ UNCHANGED timerVars

\* a variant of AddTarget without the strip() of line 89
AddTargetUnstripped ==
    /\ main_pc = "idle"
    /\ LET target_text == target_entry IN
       IF target_text # <<>>
       THEN /\ Len(log_entries) < MaxRows
            /\ \E k \in 1..Len(Times) :
                 /\ log_entries # <<>> =>
                        k >= ClockOf(log_entries[Len(log_entries)].time)
                 /\ csv_file' = AppendRow(csv_file,
                                    <<Today, <<Times[k]>>, target_text>>)
                 /\ log_entries' = Append(log_entries,
                                    Entry(Today, <<Times[k]>>, target_text))
            /\ target_entry' = <<>>
            /\ current_focus_label' = FocusLabel(GetLastTarget(csv_file'))
            /\ add_outcome' = "appended"
       ELSE /\ add_outcome' = "warning"
            /\ UNCHANGED <<csv_file, log_entries, target_entry,
                           current_focus_label>>
    /\ UNCHANGED <<listbox, searched>>
    /\ UNCHANGED timerVars

\* a variant of AddTarget that opens the file with "w"
AddTargetOverwrite ==
    /\ main_pc = "idle"
    /\ LET target_text == Strip(target_entry) IN
       IF target_text # <<>>
       THEN /\ Len(log_entries) < MaxRows
            /\ \E k \in 1..Len(Times) :
                 /\ log_entries # <<>> =>
                        k >= ClockOf(log_entries[Len(log_entries)].time)
                 /\ csv_file' = OverwriteRow(csv_file,
                                    <<Today, <<Times[k]>>, target_text>>)
                 /\ log_entries' = Append(log_entries,
                                    Entry(Today, <<Times[k]>>, target_text))
            /\ target_entry' = <<>>
            /\ current_focus_label' = FocusLabel(GetLastTarget(csv_file'))
            /\ add_outcome' = "appended"
       ELSE /\ add_outcome' = "warning"
            /\ UNCHANGED <<csv_file, log_entries, target_entry,
                           current_focus_label>>
    /\ UNCHANGED <<listbox, searched>>
    /\ UNCHANGED timerVars

\* add_target (lines 88-108); the clock does not run backwards
AddTarget ==
    /\ main_pc = "idle"
    /\ LET target_text == Strip(target_entry) IN
       IF target_text # <<>>
       THEN /\ Len(log_entries) < MaxRows
            /\ \E k \in 1..Len(Times) :
                 /\ log_entries # <<>> =>
                        k >= ClockOf(log_entries[Len(log_entries)].time)
                 /\ csv_file' = AppendRow(csv_file,
                                    <<Today, <<Times[k]>>, target_text>>)
                 /\ log_entries' = Append(log_entries,
                                    Entry(Today, <<Times[k]>>, target_text))
            /\ target_entry' = <<>>
            /\ current_focus_label' = FocusLabel(GetLastTarget(csv_file'))
            /\ add_outcome' = "appended"
       ELSE /\ add_outcome' = "warning"
            /\ UNCHANGED <<csv_file, log_entries, target_entry,
                           current_focus_label>>
    /\ UNCHANGED <<listbox, searched>>
    /\ UNCHANGED timerVars

\* _search_targets(query, listbox) (lines 238-247), called by the Submit
\* button of the history window and, with "", when the window opens; open()
\* of a missing file and next(reader) on an empty file raise after the
\* listbox has been emptied
SearchTargets(query) ==
    /\ main_pc = "idle"
    /\ listbox' = IF ~csv_file.exists \/ csv_file.lines = <<>> THEN <<>>
                  ELSE ScanRows(ReadRows(csv_file), query, <<>>)
    /\ searched' = [done |-> TRUE, query |-> query, rows |-> Len(log_entries)]
    /\ UNCHANGED <<csv_file, log_entries, target_entry, current_focus_label,
                   add_outcome>>
    /\ UNCHANGED timerVars

Next ==
    \/ StartFocusSet
    \/ StartFocusSpawn
    \/ Submit
    \/ ToggleMute
    \/ \E text \in TargetTexts : TypeTarget(text)
    \/ AddTarget
    \/ \E query \in Queries : SearchTargets(query)
    \/ \E t \in Runs : TimerThread(t)

Spec == Init /\ [][Next]_vars

(***************************************************************************)
(* Slices of Spec that TLC explores exhaustively.  Each has actions of     *)
(* Next, leaves one kind of main-thread event free and restricts the       *)
(* others.                                                                 *)
(***************************************************************************)
\* restarts: start_focus is called up to MaxStarts times, at any moment; the
\* settings are submitted once and the mute box is edited, before the first
\* start only
NextRestart ==
    \/ StartFocusSet
    \/ StartFocusSpawn
    \/ nstarts = 0 /\ config_msg = "none" /\ Submit
    \/ nstarts = 0 /\ ToggleMute
    \/ \E t \in Runs : TimerThread(t)

SpecRestart == Init /\ [][NextRestart]_vars

\* settings: start_focus is called once; the settings and the mute box are
\* edited at any moment, before and during the run
NextSettings ==
    \/ nstarts = 0 /\ StartFocusSet
    \/ StartFocusSpawn
    \/ Submit
    \/ ToggleMute
    \/ \E t \in Runs : TimerThread(t)

SpecSettings == Init /\ [][NextSettings]_vars

\* SpecSettings under fair scheduling: the operating system keeps scheduling
\* every timer thread (time.sleep(1) returns, play returns), and the main
\* thread, once inside start_focus, runs it to its end
SpecSettingsFair ==
    /\ SpecSettings
    /\ \A t \in Runs : WF_vars(TimerThread(t))
    /\ WF_vars(StartFocusSpawn)

\* the log: __init__ from line 70 on, then the target entry, add_target and
\* the history search at any moment; the settings are submitted once and
\* start_focus is called once (it reads the log); the threads do not touch
\* the log and are left out
NextLog ==
    \/ CtorLabel
    \/ CtorEnsureCsv
    \/ \E text \in TargetTexts : TypeTarget(text)
    \/ AddTarget
    \/ \E query \in Queries : SearchTargets(query)
    \/ /\ nstarts = 0
       /\ config_msg = "none"
       /\ SubmitConfig(DecimalText(MaxMinutes), DecimalText(MaxMinutes))
    \/ nstarts = 0 /\ StartFocusSet
    \/ StartFocusSpawn

SpecLog == InitLog /\ [][NextLog]_vars

(***************************************************************************)
(* Claims about restarts.                                                  *)
(***************************************************************************)
\* number of updates thread t has emitted
Emitted(t) == obs[t].focus_n + obs[t].rest_n

\* thread t is about to make a check that passes: its next step emits an
\* update or plays the boundary sound
Eligible(t) ==
    \/ threads[t].pc = "count" /\ threads[t].remaining >= 1 /\ ~stop_event
    \/ threads[t].pc = "sound" /\ ~stop_event /\ ~mute_sound

\* C1: at most one timer run is eligible to emit progress updates or to play
\* the boundary sound.
C1_AtMostOneActiveRun == Cardinality({t \in Runs : Eligible(t)}) <= 1

\* C2: once a newer run has emitted its first update, no older run emits an
\* update any more.
C2_NoOldUpdateAfterNew ==
    [][\A t \in Runs, u \in Runs :
          (t < u /\ Emitted(u) > 0) => Emitted(t)' = Emitted(t)]_vars

\* C3: a run superseded while in its Focus phase never plays the boundary
\* sound and never begins its Rest countdown.
C3_CancelledFocusNoSoundNoRest ==
    \A t \in Runs :
        obs[t].superseded_in = "Focus" =>
            /\ obs[t].sound = "none"
            /\ threads[t].mode_label # "Rest"

\* C4: a superseded run emits at most one more update (the one of the tick
\* in progress).
C4_AtMostOneLateUpdate == \A t \in Runs : obs[t].late <= 1

(***************************************************************************)
(* Claims about one run and the settings.                                  *)
(***************************************************************************)
\* thread t has returned from _run_focus_timer and start_focus was not
\* called again after the call that created it
Completed(t) == threads[t].pc = "done" /\ ~Superseded(t)

\* the run of thread t read a positive Focus length and, if it began its
\* Rest countdown, a positive Rest length
PositiveLengths(t) ==
    /\ obs[t].focus_total > 0
    /\ threads[t].mode_label = "Rest" => threads[t].total_seconds > 0

TwoDigits(n) == <<DigitChars[(n \div 10) + 1], DigitChars[(n % 10) + 1]>>

\* "<label> Time Left: MM:SS" for the given number of seconds
ClockText(label, seconds) ==
    <<label, " Time Left: ">> \o TwoDigits(seconds \div 60) \o <<":">>
        \o TwoDigits(seconds % 60)

\* C6: within one run and one phase the remaining seconds of successive
\* updates strictly decrease; every update's text is the phase label with
\* the remaining seconds as zero-padded MM:SS; no Focus update follows a
\* Rest update of the same run.
C6_UpdatesOrderedAndFormatted ==
    [][\A t \in Runs :
          /\ obs'[t].focus_n # obs[t].focus_n =>
                /\ obs[t].rest_n = 0
                /\ obs'[t].rest_n = 0
                /\ obs[t].focus_n > 0 =>
                        obs'[t].last_remaining < obs[t].last_remaining
                /\ obs'[t].last_text = ClockText("Focus", obs'[t].last_remaining)
          /\ obs'[t].rest_n # obs[t].rest_n =>
                /\ obs[t].rest_n > 0 =>
                        obs'[t].last_remaining < obs[t].last_remaining
                /\ obs'[t].last_text = ClockText("Rest", obs'[t].last_remaining)
      ]_vars

C6_Witness ==
    \E t \in Runs :
        /\ obs[t].focus_n > 2
        /\ obs[t].rest_n > 2
        /\ obs[t].last_text = <<"Rest", " Time Left: ", "0", "0", ":", "0", "9">>

\* C7: the length of a run's Rest phase and whether its boundary sound is
\* played are those of the configuration at the start_focus call, whatever
\* is submitted or toggled while the run is in progress.
C7_ConfigIsSnapshot ==
    \A t \in Runs :
        (t = nstarts /\ threads[t].pc # "none") =>
            /\ threads[t].mode_label = "Rest" =>
                    threads[t].total_seconds = snap.rest * SecondsPerMinute
            /\ obs[t].sound # "none" => ~snap.mute
            /\ (threads[t].mode_label = "Rest" /\ ~snap.mute) =>
                    obs[t].sound # "none"

\* C8: both stored durations are positive in every reachable state and no
\* countdown is started with a non-positive length.
C8_DurationsPositive ==
    /\ focus_minutes > 0
    /\ rest_minutes > 0
    /\ \A t \in Runs : threads[t].pc = "count" => threads[t].total_seconds > 0

\* the submissions in which a field is not an integer: <<focus text, rest text>>
InvalidEntries ==
    {entries \in EntryTexts \X EntryTexts :
        ~ParseInt[entries[1]].ok \/ ~ParseInt[entries[2]].ok}

\* C9: a submission in which either field is not an integer changes neither
\* stored duration (also when only the rest field is invalid), no timer
\* thread and not the stop flag: a step that changes one of these is not such
\* a submission.
C9_InvalidSubmitChangesNothing ==
    [][\/ /\ focus_minutes' = focus_minutes
          /\ rest_minutes' = rest_minutes
          /\ threads' = threads
          /\ stop_event' = stop_event
       \/ \A entries \in InvalidEntries :
              ~SubmitConfig(entries[1], entries[2])
      ]_vars

C9_Witness ==
    /\ config_msg = "Please enter valid integers."
    /\ focus_minutes = MaxMinutes
    /\ rest_minutes = MaxMinutes
    /\ \E t \in Runs : Live(t)

\* C10: a failed playback does not abort the run: the thread goes on to the
\* Rest check, the Rest countdown begins with rest_minutes * 60, and an
\* uninterrupted run ends with Rest 00:00 after all its Rest updates.
C10_PlaybackFailureNotFatal ==
    /\ [](\A t \in Runs :
            (Completed(t) /\ obs[t].sound = "failed") =>
                /\ threads[t].mode_label = "Rest"
                /\ obs[t].rest_n =
                      (IF threads[t].total_seconds > 0
                       THEN threads[t].total_seconds ELSE 0) + 1
                /\ obs[t].last_text = ClockText("Rest", 0))
    /\ [][\A t \in Runs :
            (/\ obs[t].sound = "failed"
             /\ ~Superseded(t)
             /\ threads[t].mode_label = "Focus"
             /\ threads'[t].mode_label = "Rest") =>
                /\ threads'[t].pc = "count"
                /\ threads'[t].remaining = rest_minutes * SecondsPerMinute
                /\ obs'[t].rest_n = 0
      ]_vars

C10_Witness ==
    \E t \in Runs :
        /\ Completed(t)
        /\ obs[t].sound = "failed"
        /\ obs[t].rest_n = SecondsPerMinute + 1

(***************************************************************************)
(* Claims about the boundary sound, termination, restarts and the flag.    *)
(***************************************************************************)
\* C11: the sound is requested at most once per run, only after the run's
\* Focus 00:00 update and before its first Rest update, and never while the
\* mute flag is set; a run that is not interrupted and reaches the boundary
\* unmuted requests it.
C11_SoundOnlyAtBoundary ==
    [][\A t \in Runs :
          /\ obs'[t].sound # obs[t].sound =>
                /\ obs[t].sound = "none"
                /\ obs[t].focus_last = 0
                /\ obs[t].rest_n = 0
                /\ ~mute_sound
          /\ (/\ threads[t].pc = "sound"
              /\ threads'[t].pc # "sound"
              /\ ~Superseded(t)
              /\ ~mute_sound) => obs'[t].sound # "none"
      ]_vars

\* C12: under fair scheduling every started thread returns, with Rest 00:00
\* as its last update unless the run was superseded, and a thread that has
\* returned emits nothing more.
C12_RunTerminates ==
    /\ \A t \in Runs :
          [](threads[t].pc # "none" =>
                <>(/\ threads[t].pc = "done"
                   /\ Superseded(t) \/ obs[t].last_text = ClockText("Rest", 0)))
    /\ [][\A t \in Runs :
            threads[t].pc = "done" =>
                /\ threads'[t].pc = "done"
                /\ Emitted(t)' = Emitted(t)]_vars

C12_Witness ==
    \E t \in Runs :
        /\ Completed(t)
        /\ obs[t].sound = "played"
        /\ obs[t].focus_n = SecondsPerMinute + 1
        /\ obs[t].last_text = ClockText("Rest", 0)

\* C18: the first update of every run is a Focus update carrying the full
\* Focus length the run read from focus_minutes.
C18_FirstUpdateIsFullFocus ==
    \A t \in Runs :
        Emitted(t) > 0 =>
            /\ obs[t].first_label = "Focus"
            /\ obs[t].first_remaining = obs[t].focus_total

\* thread t takes a branch of a stop_event check that is taken only when the
\* flag is set: the return of line 165, or line 156 skipping the Rest phase
ObservesStop(t) ==
    \/ /\ threads[t].pc = "count"
       /\ threads[t].remaining >= 1
       /\ threads'[t].pc # "count"
    \/ /\ threads[t].pc = "rest"
       /\ threads'[t].pc = "done"

IsTrimOf(t, s) ==
    /\ t = <<>> \/ (Head(t) # " " /\ t[Len(t)] # " ")
    /\ \E i \in 0..Len(s) :
          /\ i + Len(t) <= Len(s)
          /\ SubSeq(s, i + 1, i + Len(t)) = t
          /\ \A k \in (1..i) \cup ((i + Len(t) + 1)..Len(s)) : s[k] = " "

\* C13: add_target with an entry that is empty or all spaces writes nothing
\* and warns; with any other entry it appends exactly one line to the file,
\* a record of three fields whose Target is the entry's text trimmed.
C13_AddTargetValidates ==
    [][AddTarget =>
          IF \A k \in 1..Len(target_entry) : target_entry[k] = " "
          THEN /\ csv_file' = csv_file
               /\ add_outcome' = "warning"
          ELSE /\ csv_file'.exists
               /\ Len(csv_file'.lines) = Len(csv_file.lines) + 1
               /\ SubSeq(csv_file'.lines, 1, Len(csv_file.lines))
                      = csv_file.lines
               /\ LET row == CsvRow(csv_file'.lines[Len(csv_file'.lines)])
                  IN  /\ Len(row) = 3
                      /\ IsTrimOf(row[3], target_entry)
      ]_vars

C13_Witness ==
    /\ add_outcome = "warning"
    /\ target_entry = <<" ", " ">>
    /\ Len(log_entries) = MaxRows
    /\ log_entries[Len(log_entries)].text = <<"b", ",", "\"">>

\* the text of the last accepted entry, or None
LastEntryText ==
    IF log_entries = <<>> THEN None
    ELSE Some(log_entries[Len(log_entries)].text)

\* C14: _get_last_target returns the text of the last accepted entry, and
\* None when there is no entry or no file; the label made from it shows that
\* text; a rejected add_target does not change the result.
C14_LastTargetIsLastAppended ==
    /\ [](/\ GetLastTarget(csv_file) = LastEntryText
          /\ main_pc # "init_label" =>
                current_focus_label =
                    <<"Current Focus: ">> \o
                        (IF log_entries = <<>> THEN <<"None">>
                         ELSE log_entries[Len(log_entries)].text))
    /\ [][(AddTarget /\ add_outcome' = "warning") =>
              GetLastTarget(csv_file') = GetLastTarget(csv_file)]_vars

C14_Witness ==
    /\ Len(log_entries) = 2
    /\ log_entries[1].text = <<"a", "b">>
    /\ log_entries[2].text = <<"A", " ", "B">>
    /\ add_outcome = "warning"
    /\ nstarts = 1
    /\ main_pc = "idle"
    /\ current_focus_label = <<"Current Focus: ", "A", " ", "B">>

\* two characters that are equal up to case
SameLetter(a, b) == a = b \/ {a, b} \in {{"a", "A"}, {"b", "B"}}

\* text contains query, ignoring case
ContainsIgnoringCase(query, text) ==
    \E i \in 0..(Len(text) - Len(query)) :
        \A k \in 1..Len(query) : SameLetter(query[k], text[i + k])

\* the listbox lines of those of the given entries that match the query
RECURSIVE MatchingLines(_, _)
MatchingLines(some_entries, query) ==
    IF some_entries = <<>> THEN <<>>
    ELSE LET e == Head(some_entries)
         IN  (IF ContainsIgnoringCase(query, e.text)
              THEN <<e.date \o <<" ">> \o e.time \o <<" - ">> \o e.text>>
              ELSE <<>>) \o MatchingLines(Tail(some_entries), query)

\* C15: after a search the listbox holds exactly the entries (never the
\* header) that the log had at that time and whose text contains the query
\* ignoring case, in insertion order; the same search on an unchanged log
\* gives the same list.
C15_SearchYieldsMatchesInOrder ==
    /\ [](searched.done =>
            listbox = MatchingLines(SubSeq(log_entries, 1, searched.rows),
                                    searched.query))
    /\ [][(/\ searched.done
           /\ searched.rows = Len(log_entries)
           /\ SearchTargets(searched.query)) => listbox' = listbox]_vars

C15_Witness ==
    /\ searched = [done |-> TRUE, query |-> <<"A", "B">>, rows |-> 2]
    /\ log_entries[1].text = <<"A", " ", "B">>
    /\ log_entries[2].text = <<"a", "b">>
    /\ listbox = << <<"2024-05-01", " ", "09:30:01", " - ", "a", "b">> >>

\* C16: a step never removes the file nor changes or drops a line of it,
\* the first line of the file is the header row, and the rows after it are
\* the accepted entries in insertion order.
C16_LogAppendOnly ==
    /\ [][csv_file.exists =>
            /\ csv_file'.exists
            /\ Len(csv_file'.lines) >= Len(csv_file.lines)
            /\ SubSeq(csv_file'.lines, 1, Len(csv_file.lines))
                    = csv_file.lines]_vars
    /\ [](csv_file.exists =>
            /\ csv_file.lines # <<>>
            /\ CsvRow(csv_file.lines[1])
                    = << <<"Date">>, <<"Time">>, <<"Target">> >>
            /\ Len(csv_file.lines) = Len(log_entries) + 1
            /\ \A i \in 1..Len(log_entries) :
                    CsvRow(csv_file.lines[i + 1]) = RowOf(log_entries[i]))

C16_Witness ==
    /\ Len(log_entries) = MaxRows
    /\ add_outcome = "appended"
    /\ searched.done
    /\ searched.rows < MaxRows
    /\ nstarts = 1
    /\ threads[1].pc = "new"

\* C17: _ensure_csv_exists creates a missing file holding only the header
\* line, leaves an existing file as it is, and applied twice gives what it
\* gives applied once.
C17_EnsureCsvIdempotent ==
    /\ [][CtorEnsureCsv =>
            IF csv_file.exists THEN csv_file' = csv_file
            ELSE csv_file' =
                    [exists |-> TRUE,
                     lines |-> << <<"Date", ",", "Time", ",", "Target">> >>]
         ]_vars
    /\ [](EnsureCsvExists(EnsureCsvExists(csv_file)) = EnsureCsvExists(csv_file))

C17_Witness ==
    /\ main_pc = "idle"
    /\ add_outcome = "none"
    /\ Len(log_entries) = 1
    /\ Len(csv_file.lines) = 2
    /\ CsvRow(csv_file.lines[2]) = RowOf(OldEntry)

==========================================================================
